---------------------------- MODULE Spec2Model ----------------------------
(***************************************************************************)
(* A model of the image-resizer pipeline (main.py, image_processing.py,    *)
(* file_utils.py): the size pre-filter, the sequential probe, the pooled   *)
(* resize phase, the scale-factor arithmetic (in IEEE-754 binary64, as     *)
(* Python floats compute it) and the size parser.                          *)
(***************************************************************************)
EXTENDS Integers, Sequences, FiniteSets, TLC

(***************************************************************************)
(* Unbounded naturals.  TLC's integers are 32 bits wide, Python's ints are *)
(* unbounded and a binary64 significand has 53 bits, so the wide values    *)
(* are little-endian sequences of limbs in base 2^15.                      *)
(***************************************************************************)
LimbBase == 2 ^ 15

Limb(a, i) == IF i >= 1 /\ i <= Len(a) THEN a[i] ELSE 0

RECURSIVE BigNorm(_)
BigNorm(a) ==
    IF a = <<>> THEN <<>>
    ELSE IF a[Len(a)] = 0 THEN BigNorm(SubSeq(a, 1, Len(a) - 1))
    ELSE a

RECURSIVE BigFromNat(_)
BigFromNat(n) ==
    IF n = 0 THEN <<>>
    ELSE <<n % LimbBase>> \o BigFromNat(n \div LimbBase)

RECURSIVE BigToNat(_)
BigToNat(a) ==
    IF a = <<>> THEN 0 ELSE a[1] + LimbBase * BigToNat(Tail(a))

\* a * k + c for a small multiplier k and carry c
RECURSIVE BigMulSmall(_, _, _)
BigMulSmall(a, k, c) ==
    IF a = <<>> THEN BigFromNat(c)
    ELSE LET s == a[1] * k + c
         IN  <<s % LimbBase>> \o BigMulSmall(Tail(a), k, s \div LimbBase)

RECURSIVE BigAddC(_, _, _)
BigAddC(a, b, c) ==
    IF a = <<>> /\ b = <<>> THEN BigFromNat(c)
    ELSE LET s == Limb(a, 1) + Limb(b, 1) + c
         IN  <<s % LimbBase>>
                 \o BigAddC(IF a = <<>> THEN a ELSE Tail(a),
                            IF b = <<>> THEN b ELSE Tail(b),
                            s \div LimbBase)

BigAdd(a, b) == BigNorm(BigAddC(a, b, 0))

\* a - b - c, for a >= b + c
RECURSIVE BigSubC(_, _, _)
BigSubC(a, b, c) ==
    IF a = <<>> THEN <<>>
    ELSE LET d == a[1] - Limb(b, 1) - c
         IN  <<d % LimbBase>>
                 \o BigSubC(Tail(a),
                            IF b = <<>> THEN b ELSE Tail(b),
                            IF d < 0 THEN 1 ELSE 0)

BigSub(a, b) == BigNorm(BigSubC(a, b, 0))

\* a >= b, for normalised a and b
RECURSIVE BigGeqFrom(_, _, _)
BigGeqFrom(a, b, i) ==
    IF i = 0 THEN TRUE
    ELSE IF a[i] # b[i] THEN a[i] > b[i]
    ELSE BigGeqFrom(a, b, i - 1)

BigGeq(a, b) ==
    IF Len(a) # Len(b) THEN Len(a) > Len(b) ELSE BigGeqFrom(a, b, Len(a))

RECURSIVE NatBitLen(_)
NatBitLen(n) == IF n = 0 THEN 0 ELSE 1 + NatBitLen(n \div 2)

BigBitLen(a) ==
    IF a = <<>> THEN 0 ELSE (Len(a) - 1) * 15 + NatBitLen(a[Len(a)])

BigBit(a, i) == (Limb(a, i \div 15 + 1) \div (2 ^ (i % 15))) % 2

\* floor(a / 2^k)
BigShr(a, k) ==
    LET q == k \div 15
        r == k % 15
    IN  IF Len(a) <= q THEN <<>>
        ELSE BigNorm([j \in 1 .. (Len(a) - q) |->
                        (a[j + q] \div (2 ^ r))
                          + (Limb(a, j + q + 1) % (2 ^ r)) * (2 ^ (15 - r))])

\* a * 2^k
BigShl(a, k) ==
    IF a = <<>> THEN <<>>
    ELSE [j \in 1 .. (k \div 15) |-> 0]
             \o BigMulSmall(a, 2 ^ (k % 15), 0)

\* the low k bits of a are all zero
BigLowZero(a, k) == BigShl(BigShr(a, k), k) = BigNorm(a)

(***************************************************************************)
(* IEEE-754 binary64, the arithmetic of Python's float.  A positive float  *)
(* is [m |-> significand, e |-> exponent] with value m * 2^e and m of      *)
(* exactly Precision bits; every operation rounds its exact result to the  *)
(* nearest such value, ties to even.  The sizes and dimensions of this     *)
(* program stay far from overflow and from the subnormal range.            *)
(***************************************************************************)
Precision == 53

\* the float nearest to n * 2^e (+ a nonzero fraction below n's unit when sticky)
FloatRound(n, e, sticky) ==
    LET len == BigBitLen(n)
    IN  IF len <= Precision
        THEN [m |-> BigShl(n, Precision - len), e |-> e - (Precision - len)]
        ELSE LET k    == len - Precision
                 q    == BigShr(n, k)
                 half == BigBit(n, k - 1) = 1
                 rest == sticky \/ ~BigLowZero(n, k - 1)
                 up   == half /\ (rest \/ BigBit(q, 0) = 1)
                 r    == IF up THEN BigAdd(q, <<1>>) ELSE q
             IN  IF BigBitLen(r) > Precision
                 THEN [m |-> BigShr(r, 1), e |-> e + k + 1]
                 ELSE [m |-> r, e |-> e + k]

\* long division t / c: quotient bits until Precision + 2 of them are significant
RECURSIVE DivBits(_, _, _, _)
DivBits(n, r, c, j) ==
    IF BigBitLen(n) >= Precision + 2 THEN [n |-> n, r |-> r, j |-> j]
    ELSE LET bit == IF 2 * r >= c THEN 1 ELSE 0
         IN  DivBits(BigMulSmall(n, 2, bit), 2 * r - bit * c, c, j + 1)

\* int / int, Python's true division of two positive ints
FloatZero == [m |-> <<>>, e |-> 0]

FloatDiv(t, c) ==
    IF t = 0 THEN FloatZero
    ELSE LET d == DivBits(BigFromNat(t \div c), t % c, c, 0)
         IN  FloatRound(d.n, 0 - d.j, d.r # 0)

\* digit-by-digit square root of m * 2^j, from bit pair i down to pair 0
RECURSIVE SqrtBits(_, _, _, _, _)
SqrtBits(m, j, i, root, rem) ==
    IF i < 0 THEN [root |-> root, rem |-> rem]
    ELSE LET hi    == IF 2 * i + 1 >= j THEN BigBit(m, 2 * i + 1 - j) ELSE 0
             lo    == IF 2 * i >= j THEN BigBit(m, 2 * i - j) ELSE 0
             r4    == BigNorm(BigMulSmall(rem, 4, 2 * hi + lo))
             trial == BigMulSmall(root, 4, 1)
         IN  IF BigGeq(r4, trial)
             THEN SqrtBits(m, j, i - 1, BigMulSmall(root, 2, 1), BigSub(r4, trial))
             ELSE SqrtBits(m, j, i - 1, BigMulSmall(root, 2, 0), r4)

\* x ** 0.5: the correctly rounded square root
FloatSqrt(x) ==
    LET j == IF (x.e - (Precision + 1)) % 2 = 0 THEN Precision + 1 ELSE Precision + 2
        s == SqrtBits(x.m, j, Precision, <<>>, <<>>)
    IN  FloatRound(s.root, (x.e - j) \div 2, s.rem # <<>>)

\* int * float
FloatMulNat(w, x) ==
    IF x.m = <<>> \/ w = 0 THEN FloatZero
    ELSE FloatRound(BigNorm(BigMulSmall(x.m, w, 0)), x.e, FALSE)

\* int(x): truncation, as an unbounded natural
FloatTruncBig(x) == IF x.e >= 0 THEN BigShl(x.m, x.e) ELSE BigShr(x.m, 0 - x.e)

\* int(x) where the result is known to be small
FloatTrunc(x) == BigToNat(FloatTruncBig(x))

\* x == 1.0
FloatIsOne(x) == BigLowZero(x.m, Precision - 1) /\ x.e = 0 - (Precision - 1)

\* x < 1.0
FloatBelowOne(x) == x = FloatZero \/ x.e <= 0 - Precision

\* round(x * 10^4): the scale factor to four decimals
FloatTenThousandths(x) ==
    LET p == BigMulSmall(x.m, 2 * 10000, 0)
    IN  BigToNat(BigShr(BigAdd(BigShl(<<1>>, 0 - x.e), p), 1 - x.e))

(***************************************************************************)
(* file_utils.estimate_scale_factor and the dimensions probe derives       *)
(***************************************************************************)
\* the ratio of the sizes with its square root forgotten
estimate_scale_factor_linear(current_size, target_size) ==
    FloatDiv(target_size, current_size)

\* the ratio taken the wrong way round, current over target
estimate_scale_factor_inverted(current_size, target_size) ==
    FloatSqrt(FloatDiv(current_size, target_size))

estimate_scale_factor(current_size, target_size) ==
    FloatSqrt(FloatDiv(target_size, current_size))

new_dimension(original, scale_factor) ==
    FloatTrunc(FloatMulNat(original, scale_factor))

VARIABLES
    size_str, parsed,         \* the size parser on its own
    calcIn, calcOut,          \* the probe arithmetic on its own
    pc,                       \* where main is
    disk,                     \* byte size of every image file of the input folder
    target_size, probe_only,  \* args.target_size, args.probe_only
    image_files,              \* process_file_sizes: the candidates, in listing order
    checked,                  \* process_file_sizes: candidates examined so far
    stat_failed,              \* candidates whose os.path.getsize raised OSError
    files_to_process,         \* process_file_sizes' result
    probed,                   \* probe's locals for every file probed so far
    probe_results,            \* probe's result
    out_dir, out_files,       \* out/ exists; the files under it, with their sizes
    futures,                  \* process_images: the state of every submitted task
    results,                  \* what each finished task returned
    collected,                \* futures whose result() main has taken
    compression_data,         \* process_images' report rows
    transform_calls           \* times ffmpeg was run on each input file

parseVars == <<size_str, parsed>>

calcVars == <<calcIn, calcOut>>

pipeVars == <<pc, disk, target_size, probe_only, image_files, checked, stat_failed,
              files_to_process, probed, probe_results, out_dir, out_files,
              futures, results, collected, compression_data, transform_calls>>

vars == <<parseVars, calcVars, pipeVars>>

ParseIdle ==
    /\ size_str = <<>>
    /\ parsed = [state |-> "idle"]

CalcIdle ==
    /\ calcIn = [width |-> 0, height |-> 0, current_size |-> 0, target_size |-> 0]
    /\ calcOut = [state |-> "idle"]

\* the pipeline's variables while another part of the program is examined alone
PipeIdle ==
    /\ pc = "idle"
    /\ disk = <<>>
    /\ target_size = 0
    /\ probe_only = FALSE
    /\ image_files = <<>>
    /\ checked = 0
    /\ stat_failed = {}
    /\ files_to_process = <<>>
    /\ probed = <<>>
    /\ probe_results = <<>>
    /\ out_dir = FALSE
    /\ out_files = <<>>
    /\ futures = <<>>
    /\ results = <<>>
    /\ collected = {}
    /\ compression_data = <<>>
    /\ transform_calls = <<>>

(***************************************************************************)
(* The probe arithmetic on its own: one file's width, height, current size *)
(* and the target size in, the scale factor and the new dimensions out     *)
(* (image_processing.probe, lines 87-93).                                  *)
(***************************************************************************)
Widths == {1, 3, 90, 1000}

Heights == {2, 90, 1000}

Sizes == {0, 4, 100, 4000000}

Targets == {1, 4, 49, 100, 1048576}

NotComputed == [state |-> "pending"]

CalcInit ==
    /\ calcIn \in [width : Widths, height : Heights,
                   current_size : Sizes, target_size : Targets]
    /\ calcOut = NotComputed
    /\ ParseIdle
    /\ PipeIdle

\* probe's loop body for a file whose size is positive
ProbeCompute ==
    /\ calcOut = NotComputed
    /\ calcIn.current_size > 0
    /\ \E scale_factor \in {estimate_scale_factor(calcIn.current_size, calcIn.target_size)} :
           calcOut' = [state          |-> "computed",
                       scale_factor   |-> scale_factor,
                       new_dimensions |-> <<new_dimension(calcIn.width, scale_factor),
                                            new_dimension(calcIn.height, scale_factor)>>]
    /\ UNCHANGED <<parseVars, calcIn, pipeVars>>

\* estimate_scale_factor raises ValueError for a size of zero
ProbeRaise ==
    /\ calcOut = NotComputed
    /\ calcIn.current_size <= 0
    /\ calcOut' = [state |-> "ValueError"]
    /\ UNCHANGED <<parseVars, calcIn, pipeVars>>

CalcNext == ProbeCompute \/ ProbeRaise

SpecCalc == CalcInit /\ [][CalcNext]_vars

(***************************************************************************)
(* File names and paths, as sequences of characters.                       *)
(***************************************************************************)
Sep == "/"

ToLower(c) ==
    CASE c = "J" -> "j" [] c = "P" -> "p" [] c = "G" -> "g" [] c = "N" -> "n"
      [] c = "E" -> "e" [] c = "I" -> "i" [] c = "F" -> "f" [] OTHER -> c

Lower(name) == [i \in 1 .. Len(name) |-> ToLower(name[i])]

EndsWith(name, suffix) ==
    /\ Len(name) >= Len(suffix)
    /\ SubSeq(name, Len(name) - Len(suffix) + 1, Len(name)) = suffix

ImageExtensions ==
    { <<".", "p", "n", "g">>, <<".", "j", "p", "g">>,
      <<".", "j", "p", "e", "g">>, <<".", "g", "i", "f">> }

\* f.lower().endswith(('.png', '.jpg', '.jpeg', '.gif'))
IsImage(name) == \E ext \in ImageExtensions : EndsWith(Lower(name), ext)

\* os.path.join(folder, name), for a relative name
PathJoin(folder, name) == folder \o <<Sep>> \o name

\* os.path.basename(path): what follows the last separator
RECURSIVE Basename(_)
Basename(path) ==
    IF \E i \in 1 .. Len(path) : path[i] = Sep
    THEN Basename(Tail(path))
    ELSE path

OutFolder == <<"o", "u", "t">>

ResizedPrefix == <<"r", "e", "s", "i", "z", "e", "d", "_">>

\* the name up to its last point
RECURSIVE Stem(_)
Stem(name) ==
    IF name = <<>> \/ name[Len(name)] = "." THEN SubSeq(name, 1, Len(name) - 1)
    ELSE Stem(SubSeq(name, 1, Len(name) - 1))

\* the output named after the stem alone, every output written as .jpg
OutputPathOfStem(file) ==
    PathJoin(OutFolder, ResizedPrefix \o Stem(Basename(file)) \o <<".", "j", "p", "g">>)

\* os.path.join("out", f"resized_{os.path.basename(file)}")
OutputPath(file) == PathJoin(OutFolder, ResizedPrefix \o Basename(file))

(***************************************************************************)
(* The run: main.py lines 20-28 over one input folder.                     *)
(***************************************************************************)
MaxSize == 3

MaxTarget == 2

MaxOutSize == 1

InputFolder == <<"i", "n">>

\* os.listdir(input_folder): two images and a file that is none
Listing ==
    { <<"a", ".", "p", "n", "g">>, <<"a", ".", "J", "P", "G">>,
      <<"n", ".", "t", "x", "t">> }

ImageNames == {name \in Listing : IsImage(name)}

Candidates == {PathJoin(InputFolder, name) : name \in ImageNames}

\* the (width, height) pairs ffprobe reports
Geometries == {<<1, 2>>, <<2, 2>>}

Orders(S) == {o \in [1 .. Cardinality(S) -> S] : \A x \in S : \E i \in DOMAIN o : o[i] = x}

Range(f) == {f[i] : i \in DOMAIN f}

Init ==
    /\ ParseIdle
    /\ CalcIdle
    /\ pc = "listdir"
    /\ disk \in [Candidates -> 1 .. MaxSize]
    /\ target_size \in 1 .. MaxTarget
    /\ probe_only \in BOOLEAN
    /\ image_files = <<>>
    /\ checked = 0
    /\ stat_failed = {}
    /\ files_to_process = <<>>
    /\ probed = <<>>
    /\ probe_results = <<>>
    /\ \E present \in SUBSET {OutputPath(f) : f \in Candidates} :
          /\ out_files \in [present -> 0 .. MaxOutSize]
          /\ out_dir \in (IF present = {} THEN BOOLEAN ELSE {TRUE})
    /\ futures = <<>>
    /\ results = <<>>
    /\ collected = {}
    /\ compression_data = <<>>
    /\ transform_calls = [f \in Candidates |-> 0]

\* process_file_sizes, line 33: the listing, filtered by extension
ListDir ==
    /\ pc = "listdir"
    /\ \E order \in Orders(Listing) :
          image_files' = [i \in 1 .. Len(SelectSeq(order, IsImage)) |->
                             PathJoin(InputFolder, SelectSeq(order, IsImage)[i])]
    /\ pc' = "sizes"
    /\ UNCHANGED <<parseVars, calcVars, disk, target_size, probe_only, checked, stat_failed,
                   files_to_process, probed, probe_results, out_dir, out_files,
                   futures, results, collected, compression_data, transform_calls>>

\* the comparison of line 44 with the boundary let through
NeedsProcessingAtBoundary(current_size, target) == current_size >= target

\* line 44: only files that exceed the target size are kept
NeedsProcessing(current_size, target) == current_size > target

\* process_file_sizes, lines 36-47: one turn of the loop, os.path.getsize answering
CheckSize ==
    /\ pc = "sizes"
    /\ checked < Len(image_files)
    /\ LET file == image_files[checked + 1]
       IN  /\ files_to_process' =
                 IF NeedsProcessing(disk[file], target_size)
                 THEN Append(files_to_process, file)
                 ELSE files_to_process
    /\ checked' = checked + 1
    /\ UNCHANGED <<parseVars, calcVars, pc, disk, target_size, probe_only, image_files, stat_failed,
                   probed, probe_results, out_dir, out_files,
                   futures, results, collected, compression_data, transform_calls>>

\* lines 39-42: os.path.getsize raises OSError and the file is passed over
CheckSizeOSError ==
    /\ pc = "sizes"
    /\ checked < Len(image_files)
    /\ stat_failed' = stat_failed \cup {image_files[checked + 1]}
    /\ checked' = checked + 1
    /\ UNCHANGED <<parseVars, calcVars, pc, disk, target_size, probe_only, image_files,
                   files_to_process, probed, probe_results, out_dir, out_files,
                   futures, results, collected, compression_data, transform_calls>>

\* process_file_sizes returns; main calls probe (line 24)
SizesReturn ==
    /\ pc = "sizes"
    /\ checked = Len(image_files)
    /\ pc' = "probe"
    /\ UNCHANGED <<parseVars, calcVars, disk, target_size, probe_only, image_files, checked,
                   stat_failed, files_to_process, probed, probe_results, out_dir,
                   out_files, futures, results, collected, compression_data,
                   transform_calls>>

\* probe, lines 84-102: one turn of the loop, ffprobe answering with a geometry
ProbeFile ==
    /\ pc = "probe"
    /\ Len(probe_results) < Len(files_to_process)
    /\ LET file         == files_to_process[Len(probe_results) + 1]
           current_size == disk[file]
       IN  \E scale_factor \in {estimate_scale_factor(current_size, target_size)} :
           \E geometry \in Geometries :
              /\ probed' = Append(probed, [file |-> file, width |-> geometry[1],
                                           height |-> geometry[2],
                                           current_size |-> current_size,
                                           scale_factor |-> scale_factor])
              /\ probe_results' =
                    Append(probe_results,
                           [input_file     |-> file,
                            new_dimensions |-> <<new_dimension(geometry[1], scale_factor),
                                                 new_dimension(geometry[2], scale_factor)>>,
                            output_file    |-> OutputPath(file),
                            target_size    |-> target_size])
    /\ UNCHANGED <<parseVars, calcVars, pc, disk, target_size, probe_only, image_files,
                   checked, stat_failed, files_to_process, out_dir, out_files,
                   futures, results, collected, compression_data, transform_calls>>

\* get_image_info or os.path.getsize raises inside probe: the run ends there
ProbeRaises ==
    /\ pc = "probe"
    /\ Len(probe_results) < Len(files_to_process)
    /\ pc' = "raised"
    /\ UNCHANGED <<parseVars, calcVars, disk, target_size, probe_only, image_files, checked,
                   stat_failed, files_to_process, probed, probe_results, out_dir,
                   out_files, futures, results, collected, compression_data,
                   transform_calls>>

\* line 27 with the flag ignored
ShouldProcessAlways(flag) == TRUE

\* main, line 27: if not args.probe_only
ShouldProcess(flag) == ~flag

\* probe returning from inside its loop, after the first file
ProbeReturnInsideLoop ==
    /\ pc = "probe"
    /\ Len(probe_results) >= 1 \/ Len(files_to_process) = 0
    /\ pc' = IF ShouldProcess(probe_only) THEN "makedirs" ELSE "done"
    /\ UNCHANGED <<parseVars, calcVars, disk, target_size, probe_only, image_files,
                   checked, stat_failed, files_to_process, probed, probe_results,
                   out_dir, out_files, futures, results, collected, compression_data,
                   transform_calls>>

\* probe returns; main goes on to process_images or ends
ProbeReturn ==
    /\ pc = "probe"
    /\ Len(probe_results) = Len(files_to_process)
    /\ pc' = IF ShouldProcess(probe_only) THEN "makedirs" ELSE "done"
    /\ UNCHANGED <<parseVars, calcVars, disk, target_size, probe_only, image_files, checked,
                   stat_failed, files_to_process, probed, probe_results, out_dir,
                   out_files, futures, results, collected, compression_data,
                   transform_calls>>

(***************************************************************************)
(* process_images: the pool of resize tasks (lines 143-162).               *)
(***************************************************************************)
\* process_images, line 145: os.makedirs("out", exist_ok=True)
MakeDirs ==
    /\ pc = "makedirs"
    /\ out_dir' = TRUE
    /\ pc' = "submit"
    /\ UNCHANGED <<parseVars, calcVars, disk, target_size, probe_only, image_files, checked,
                   stat_failed, files_to_process, probed, probe_results, out_files,
                   futures, results, collected, compression_data, transform_calls>>

\* lines 150-151: executor.submit for the next probe result
Submit ==
    /\ pc = "submit"
    /\ Len(futures) < Len(probe_results)
    /\ futures' = Append(futures, "pending")
    /\ UNCHANGED <<parseVars, calcVars, pc, disk, target_size, probe_only, image_files, checked,
                   stat_failed, files_to_process, probed, probe_results, out_dir,
                   out_files, results, collected, compression_data, transform_calls>>

\* every task is submitted: main enters the as_completed loop (line 153)
AwaitResults ==
    /\ pc = "submit"
    /\ Len(futures) = Len(probe_results)
    /\ pc' = "as_completed"
    /\ UNCHANGED <<parseVars, calcVars, disk, target_size, probe_only, image_files, checked,
                   stat_failed, files_to_process, probed, probe_results, out_dir,
                   out_files, futures, results, collected, compression_data,
                   transform_calls>>

\* a worker thread of the pool takes a pending task and calls resize_image
StartTask(t) ==
    /\ futures[t] = "pending"
    /\ futures' = [futures EXCEPT ![t] = "running"]
    /\ UNCHANGED <<parseVars, calcVars, pc, disk, target_size, probe_only, image_files, checked,
                   stat_failed, files_to_process, probed, probe_results, out_dir,
                   out_files, results, collected, compression_data, transform_calls>>

\* resize_image, line 109
InvalidDimensions(new_dimensions) == new_dimensions[1] <= 0 \/ new_dimensions[2] <= 0

\* resize_image, lines 109-111: the guard's return reads the size of the output
\* file, and os.path.getsize raises FileNotFoundError when there is none
ResizeSkip(t) ==
    /\ futures[t] = "running"
    /\ InvalidDimensions(probe_results[t].new_dimensions)
    /\ LET job == probe_results[t]
       IN  IF job.output_file \in DOMAIN out_files
           THEN /\ futures' = [futures EXCEPT ![t] = "finished"]
                /\ results' = (t :> [output_file       |-> job.output_file,
                                     initial_size      |-> disk[job.input_file],
                                     final_size        |-> out_files[job.output_file],
                                     compression_ratio |-> FloatZero,
                                     iteration_count   |-> 0]) @@ results
           ELSE /\ futures' = [futures EXCEPT ![t] = "raised"]
                /\ results' = results
    /\ UNCHANGED <<parseVars, calcVars, pc, disk, target_size, probe_only, image_files, checked,
                   stat_failed, files_to_process, probed, probe_results, out_dir,
                   out_files, collected, compression_data, transform_calls>>

\* resize_image, lines 113-141: ffmpeg runs once and writes the output file
\* with some size; the corrective dimensions of lines 131-136 are only printed
TransformOk(t) ==
    /\ futures[t] = "running"
    /\ ~InvalidDimensions(probe_results[t].new_dimensions)
    /\ \E final_size \in 0 .. MaxOutSize :
          LET job          == probe_results[t]
              initial_size == disk[job.input_file]
          IN  /\ out_files' = (job.output_file :> final_size) @@ out_files
              /\ results' = (t :> [output_file       |-> job.output_file,
                                   initial_size      |-> initial_size,
                                   final_size        |-> final_size,
                                   compression_ratio |->
                                       IF final_size # 0
                                       THEN FloatDiv(initial_size, final_size)
                                       ELSE FloatZero,
                                   iteration_count   |-> 1]) @@ results
              /\ transform_calls' =
                    [transform_calls EXCEPT ![job.input_file] = @ + 1]
    /\ futures' = [futures EXCEPT ![t] = "finished"]
    /\ UNCHANGED <<parseVars, calcVars, pc, disk, target_size, probe_only, image_files, checked,
                   stat_failed, files_to_process, probed, probe_results, out_dir,
                   collected, compression_data>>

\* a failed ffmpeg run tried once more before the error is raised
TransformFailRetried(t) ==
    /\ futures[t] = "running"
    /\ ~InvalidDimensions(probe_results[t].new_dimensions)
    /\ transform_calls' =
          [transform_calls EXCEPT ![probe_results[t].input_file] = @ + 1]
    /\ futures' = [futures EXCEPT ![t] =
                      IF transform_calls[probe_results[t].input_file] = 0
                      THEN "running" ELSE "raised"]
    /\ UNCHANGED <<parseVars, calcVars, pc, disk, target_size, probe_only, image_files,
                   checked, stat_failed, files_to_process, probed, probe_results,
                   out_dir, out_files, results, collected, compression_data>>

\* resize_image, line 123: ffmpeg exits non-zero and check=True raises
TransformFail(t) ==
    /\ futures[t] = "running"
    /\ ~InvalidDimensions(probe_results[t].new_dimensions)
    /\ transform_calls' =
          [transform_calls EXCEPT ![probe_results[t].input_file] = @ + 1]
    /\ futures' = [futures EXCEPT ![t] = "raised"]
    /\ UNCHANGED <<parseVars, calcVars, pc, disk, target_size, probe_only, image_files, checked,
                   stat_failed, files_to_process, probed, probe_results, out_dir,
                   out_files, results, collected, compression_data>>

Settled(t) == futures[t] \in {"finished", "raised"}

\* lines 153-155: as_completed yields a settled future and main takes its result;
\* the exception of a task that raised leaves the loop and the with block
Collect(t) ==
    /\ pc = "as_completed"
    /\ t \notin collected
    /\ Settled(t)
    /\ collected' = collected \cup {t}
    /\ IF futures[t] = "finished"
       THEN /\ compression_data' =
                  Append(compression_data,
                         [file_name         |-> Basename(results[t].output_file),
                          initial_size      |-> results[t].initial_size,
                          final_size        |-> results[t].final_size,
                          compression_ratio |-> results[t].compression_ratio,
                          iteration_count   |-> results[t].iteration_count])
            /\ pc' = pc
       ELSE /\ compression_data' = compression_data
            /\ pc' = "exit_raising"
    /\ UNCHANGED <<parseVars, calcVars, disk, target_size, probe_only, image_files, checked,
                   stat_failed, files_to_process, probed, probe_results, out_dir,
                   out_files, futures, results, transform_calls>>

\* the as_completed loop has yielded every future
LoopEnd ==
    /\ pc = "as_completed"
    /\ collected = DOMAIN futures
    /\ pc' = "exit"
    /\ UNCHANGED <<parseVars, calcVars, disk, target_size, probe_only, image_files, checked,
                   stat_failed, files_to_process, probed, probe_results, out_dir,
                   out_files, futures, results, collected, compression_data,
                   transform_calls>>

\* the with block left without waiting, as executor.shutdown(wait=False) would
ShutdownWithoutWaiting == TRUE

\* the with block's exit is executor.shutdown(wait=True): it cancels nothing
\* and returns once every submitted task has run
ShutdownReturns == \A t \in DOMAIN futures : Settled(t)

\* line 148's with block ends: process_images prints its summary and returns,
\* or the exception of line 154 goes on to main's caller
ExecutorExit ==
    /\ pc \in {"exit", "exit_raising"}
    /\ ShutdownReturns
    /\ pc' = IF pc = "exit" THEN "done" ELSE "raised"
    /\ UNCHANGED <<parseVars, calcVars, disk, target_size, probe_only, image_files, checked,
                   stat_failed, files_to_process, probed, probe_results, out_dir,
                   out_files, futures, results, collected, compression_data,
                   transform_calls>>

Next ==
    \/ ListDir
    \/ CheckSize
    \/ CheckSizeOSError
    \/ SizesReturn
    \/ ProbeFile
    \/ ProbeRaises
    \/ ProbeReturn
    \/ MakeDirs
    \/ Submit
    \/ AwaitResults
    \/ \E t \in DOMAIN futures : StartTask(t)
    \/ \E t \in DOMAIN futures : ResizeSkip(t)
    \/ \E t \in DOMAIN futures : TransformOk(t)
    \/ \E t \in DOMAIN futures : TransformFail(t)
    \/ \E t \in DOMAIN futures : Collect(t)
    \/ LoopEnd
    \/ ExecutorExit

Spec == Init /\ [][Next]_vars

(***************************************************************************)
(* file_utils.parse_size (lines 10-28) on its own.                         *)
(***************************************************************************)
MaxLen == 3

\* the characters the size strings are drawn from
Alphabet == {"0", "1", "5", ".", "K", "m", "G", "T", "B", " ", "\n", "a"}

Digits == {"0", "1", "2", "3", "4", "5", "6", "7", "8", "9"}

Whitespace == {" ", "\t", "\n", "\r"}

DigitValue(c) ==
    CASE c = "0" -> 0 [] c = "1" -> 1 [] c = "2" -> 2 [] c = "3" -> 3 [] c = "4" -> 4
      [] c = "5" -> 5 [] c = "6" -> 6 [] c = "7" -> 7 [] c = "8" -> 8 [] c = "9" -> 9

\* str.upper() on a unit letter
ToUpper(c) ==
    CASE c = "k" -> "K" [] c = "m" -> "M" [] c = "g" -> "G" [] c = "t" -> "T"
      [] c = "b" -> "B" [] OTHER -> c

AllIn(str, from, to, class) == \A i \in from .. to : str[i] \in class

\* \d*\.?\d+ matches str[1 .. i]
MatchesNumber(str, i) ==
    \E a \in 0 .. i : \E b \in {a, a + 1} :
        /\ b < i
        /\ AllIn(str, 1, a, Digits)
        /\ b = a + 1 => str[b] = "."
        /\ AllIn(str, b + 1, i, Digits)

\* the ways ^(\d*\.?\d+)\s*([KMGT]?)B?$ matches str under re.I: the number
\* is str[1 .. i], the unit str[j + 1 .. k]; $ also matches before a last newline
Matches(str) ==
    { [i |-> i, j |-> j, k |-> k, l |-> l] :
        i \in 1 .. Len(str), j \in 0 .. Len(str), k \in 0 .. Len(str), l \in 0 .. Len(str) }

RegexMatches(str) ==
    { g \in Matches(str) :
        /\ g.i <= g.j /\ g.j <= g.k /\ g.k <= g.l
        /\ MatchesNumber(str, g.i)
        /\ AllIn(str, g.i + 1, g.j, Whitespace)
        /\ g.k \in {g.j, g.j + 1}
        /\ g.k = g.j + 1 => ToUpper(str[g.k]) \in {"K", "M", "G", "T"}
        /\ g.l \in {g.k, g.k + 1}
        /\ g.l = g.k + 1 => ToUpper(str[g.l]) = "B"
        /\ \/ g.l = Len(str)
           \/ g.l = Len(str) - 1 /\ str[Len(str)] = "\n" }

\* the numeral's digits read as one integer, the point dropped
RECURSIVE DigitsValue(_)
DigitsValue(number) ==
    IF number = <<>> THEN 0
    ELSE IF number[Len(number)] = "."
    THEN DigitsValue(SubSeq(number, 1, Len(number) - 1))
    ELSE 10 * DigitsValue(SubSeq(number, 1, Len(number) - 1))
           + DigitValue(number[Len(number)])

\* how many digits follow the point
FractionDigits(number) ==
    IF \E p \in 1 .. Len(number) : number[p] = "."
    THEN Len(number) - (CHOOSE p \in 1 .. Len(number) : number[p] = ".")
    ELSE 0

\* float(number): the binary64 value nearest to the decimal numeral
FloatOfDecimal(number) == FloatDiv(DigitsValue(number), 10 ^ FractionDigits(number))

\* the multiplier table with its last entry missing
MultiplierRankWithoutTera(unit) ==
    CASE unit = <<"K">> -> 1 [] unit = <<"M">> -> 2 [] unit = <<"G">> -> 3
      [] OTHER -> 0

\* line 21: multipliers.get(unit, 1), as a power of 1024
MultiplierRank(unit) ==
    CASE unit = <<"K">> -> 1 [] unit = <<"M">> -> 2 [] unit = <<"G">> -> 3
      [] unit = <<"T">> -> 4 [] OTHER -> 0

\* number * 1024 ** rank
RECURSIVE TimesMultiplier(_, _)
TimesMultiplier(x, rank) ==
    IF rank = 0 THEN x ELSE TimesMultiplier(FloatMulNat(1024, x), rank - 1)

parse_size(str) ==
    IF RegexMatches(str) = {} THEN [state |-> "ArgumentTypeError"]
    ELSE LET g             == CHOOSE g \in RegexMatches(str) : TRUE
             number        == SubSeq(str, 1, g.i)
             size_in_bytes ==
                 FloatTruncBig(TimesMultiplier(FloatOfDecimal(number),
                     MultiplierRank([n \in 1 .. (g.k - g.j) |-> ToUpper(str[g.j + n])])))
         IN  IF size_in_bytes = <<>>
             THEN [state |-> "ValueError"]
             ELSE [state |-> "returned", size_in_bytes |-> size_in_bytes]

RECURSIVE Strings(_)
Strings(n) ==
    IF n = 0 THEN {<<>>}
    ELSE Strings(n - 1) \cup {Append(str, c) : str \in Strings(n - 1), c \in Alphabet}

ParseInit ==
    /\ size_str \in Strings(MaxLen)
    /\ parsed = [state |-> "pending"]
    /\ CalcIdle
    /\ PipeIdle

\* argparse calls parse_size on the target_size argument
ParseSize ==
    /\ parsed = [state |-> "pending"]
    /\ parsed' = parse_size(size_str)
    /\ UNCHANGED <<size_str, calcVars, pipeVars>>

ParseNext == ParseSize

SpecParse == ParseInit /\ [][ParseNext]_vars

(***************************************************************************)
(* The properties.                                                         *)
(***************************************************************************)
Processing == Range(files_to_process)

ProbedFiles == {probed[i].file : i \in DOMAIN probed}

TaskFiles == {probe_results[t].input_file : t \in DOMAIN futures}

FilterDone == pc \notin {"listdir", "sizes"}

\* a file of at most the target size is never probed and never transformed
SmallFilesUntouched ==
    \A f \in Candidates :
        disk[f] <= target_size =>
            f \notin ProbedFiles /\ f \notin TaskFiles /\ transform_calls[f] = 0

\* C1, as stated: a candidate is in the set handed to probe and resize exactly
\* when its size is strictly greater than the target, and a file of at most the
\* target size is never probed and never transformed.
C1_SkipPolicy_AsStated ==
    /\ FilterDone =>
          \A f \in Candidates : f \in Processing <=> disk[f] > target_size
    /\ SmallFilesUntouched

\* C1, amended: a candidate is in the set handed to probe and resize exactly
\* when its size could be read and is strictly greater than the target; a file
\* of at most the target size (equality included) is never probed and never
\* transformed, and nothing outside the set is.
C1_SkipPolicy ==
    /\ FilterDone =>
          \A f \in Candidates :
              f \in Processing <=> (f \notin stat_failed /\ disk[f] > target_size)
    /\ SmallFilesUntouched
    /\ ProbedFiles \subseteq Processing
    /\ \A f \in Candidates : transform_calls[f] > 0 => f \in Processing

\* a finished run that skipped a file of exactly the target size and resized another
C1_Witness ==
    /\ pc = "done"
    /\ \E f, g \in Candidates :
          /\ disk[f] = target_size
          /\ f \notin Processing
          /\ g \in Processing
          /\ transform_calls[g] = 1

ResizeStarted ==
    \/ pc \in {"makedirs", "submit", "as_completed", "exit", "exit_raising"}
    \/ futures # <<>>
    \/ \E f \in Candidates : transform_calls[f] > 0

\* C2: once anything of the resize phase has happened (the directory made, a
\* task submitted or started, ffmpeg run), every file of the processing set
\* has been probed and main is no longer in the probe loop.
C2_PhaseOrdering ==
    ResizeStarted =>
        /\ pc \notin {"listdir", "sizes", "probe"}
        /\ Len(probe_results) = Len(files_to_process)
        /\ ProbedFiles = Processing

\* two files were probed and a resize task is running
C2_Witness ==
    /\ Len(probed) = 2
    /\ \E t \in DOMAIN futures : futures[t] = "running"

\* C3, as stated: a resize_image call with a width or height <= 0 does not run
\* ffmpeg and returns an outcome with iteration count 0 and compression ratio 0
\* instead of ending in an error, whether or not the output file exists.
C3_InvalidDimensionGuard ==
    \A t \in DOMAIN futures :
        (InvalidDimensions(probe_results[t].new_dimensions) /\ Settled(t)) =>
            /\ transform_calls[probe_results[t].input_file] = 0
            /\ futures[t] = "finished"
            /\ results[t].iteration_count = 0
            /\ results[t].compression_ratio = FloatZero

\* C4: in a probe-only run ffmpeg is never run, no task is submitted, out/ and
\* the files under it stay as they were, and a run that ends normally has
\* probed every file of the processing set.
C4_ProbeOnly ==
    /\ [](probe_only =>
            /\ \A f \in Candidates : transform_calls[f] = 0
            /\ futures = <<>>
            /\ (pc = "done" => ProbedFiles = Processing))
    /\ [][probe_only => (out_dir' = out_dir /\ out_files' = out_files)]_vars

\* a probe-only run that ended after probing two files
C4_Witness == probe_only /\ pc = "done" /\ Len(probed) = 2

\* C5: when process_images has returned or let the error through, every task
\* that was submitted has run to its result or to its own failure.
C5_FailureIsolation ==
    pc \in {"done", "raised"} => \A t \in DOMAIN futures : Settled(t)

\* the error of one task went through, and a sibling whose result main never
\* took has still run to completion
C5_Witness ==
    /\ pc = "raised"
    /\ \E t, u \in DOMAIN futures :
          /\ futures[t] = "raised" /\ t \in collected
          /\ futures[u] = "finished" /\ u \notin collected

Task(f) == CHOOSE t \in DOMAIN futures : probe_results[t].input_file = f

\* where a file stands: Pending, Probed, then Resized, Skipped or Failed
Stage(f) ==
    IF f \in TaskFiles /\ Settled(Task(f))
    THEN IF futures[Task(f)] = "raised" THEN "Failed"
         ELSE IF InvalidDimensions(probe_results[Task(f)].new_dimensions)
         THEN "Skipped" ELSE "Resized"
    ELSE IF f \in ProbedFiles THEN "Probed"
    ELSE IF (\E i \in 1 .. checked : image_files[i] = f) /\ f \notin Processing
    THEN "Skipped"
    ELSE "Pending"

StageRank(stage) ==
    CASE stage = "Pending" -> 0 [] stage = "Probed" -> 1 [] OTHER -> 2

\* C9: ffmpeg is run at most once per file, every successful run reports an
\* iteration count of exactly 1, and a file only moves forward through
\* Pending, Probed and its final stage, which it never leaves.
C9_SinglePass ==
    /\ [](/\ \A f \in Candidates : transform_calls[f] <= 1
          /\ \A t \in DOMAIN futures :
                (futures[t] = "finished"
                    /\ ~InvalidDimensions(probe_results[t].new_dimensions)) =>
                    /\ results[t].iteration_count = 1
                    /\ transform_calls[probe_results[t].input_file] = 1)
    /\ [][\A f \in Candidates :
             /\ StageRank(Stage(f)') >= StageRank(Stage(f))
             /\ StageRank(Stage(f)) = 2 => Stage(f)' = Stage(f)]_vars

\* the run ended on the failure of one ffmpeg run, made once, beside a resized file
C9_Witness ==
    /\ pc = "raised"
    /\ \E f, g \in Candidates :
          /\ Stage(f) = "Failed" /\ transform_calls[f] = 1
          /\ Stage(g) = "Resized"

\* C10: every file of the processing set is mapped to out/resized_<its name>,
\* and two distinct probe results never carry the same output path, so two
\* tasks never write the same file.
C10_OutputPathsDistinct ==
    /\ \A i \in DOMAIN probe_results :
          \E name \in ImageNames :
              /\ probe_results[i].input_file = InputFolder \o <<Sep>> \o name
              /\ probe_results[i].output_file =
                    OutFolder \o <<Sep>> \o ResizedPrefix \o name
    /\ \A i, j \in DOMAIN probe_results :
          i # j => probe_results[i].output_file # probe_results[j].output_file

\* two resize tasks with valid dimensions are running at once
C10_Witness ==
    \E t, u \in DOMAIN futures :
        /\ t # u
        /\ futures[t] = "running" /\ futures[u] = "running"
        /\ ~InvalidDimensions(probe_results[t].new_dimensions)
        /\ ~InvalidDimensions(probe_results[u].new_dimensions)

\* base * x * x, exactly
TimesSquare(base, x) == BigNorm(BigMulSmall(BigMulSmall(BigFromNat(base), x, 0), x, 0))

\* d is the largest integer with d^2 * current <= original^2 * target
IsFloorOfScaled(d, original, current, target) ==
    /\ BigGeq(TimesSquare(target, original), TimesSquare(current, d))
    /\ ~BigGeq(TimesSquare(target, original), TimesSquare(current, d + 1))

\* C6, as stated: for current size C > target T > 0 the dimensions probe
\* computes are floor(W * sqrt(T / C)) and floor(H * sqrt(T / C)), the largest
\* w, h with w^2 * C <= W^2 * T and h^2 * C <= H^2 * T; and the scale factor of
\* equal sizes is exactly 1.
C6_TargetDimensions ==
    calcOut.state = "computed" =>
        /\ (calcIn.current_size > calcIn.target_size /\ calcIn.target_size > 0) =>
              /\ IsFloorOfScaled(calcOut.new_dimensions[1], calcIn.width,
                                 calcIn.current_size, calcIn.target_size)
              /\ IsFloorOfScaled(calcOut.new_dimensions[2], calcIn.height,
                                 calcIn.current_size, calcIn.target_size)
        /\ calcIn.current_size = calcIn.target_size => FloatIsOne(calcOut.scale_factor)

\* the one image of the end-to-end case, with the target that "1M" parses to
EndToEndCase ==
    /\ calcIn.width = 1000
    /\ calcIn.height = 1000
    /\ calcIn.current_size = 4000000
    /\ BigFromNat(calcIn.target_size) = parse_size(<<"1", "M">>).size_in_bytes
    /\ calcOut.state = "computed"

\* C7, as stated: for the 1000x1000 image of 4,000,000 bytes and target "1M"
\* the scale factor is about 0.5117 and the requested dimensions are 511x511.
C7_EndToEnd_AsStated ==
    EndToEndCase =>
        /\ FloatTenThousandths(calcOut.scale_factor) = 5117
        /\ calcOut.new_dimensions = <<511, 511>>

\* C7, amended: for the 1000x1000 image of 4,000,000 bytes and target "1M"
\* (1,048,576 bytes) the scale factor is 0.5120 to four decimals and the
\* requested dimensions are 512x512.
C7_EndToEnd ==
    EndToEndCase =>
        /\ calcIn.target_size = 1048576
        /\ FloatTenThousandths(calcOut.scale_factor) = 5120
        /\ calcOut.new_dimensions = <<512, 512>>

C7_Witness == EndToEndCase

Last(str) == str[Len(str)]

DropLast(str) == SubSeq(str, 1, Len(str) - 1)

DropIf(str, class) ==
    IF str # <<>> /\ ToUpper(Last(str)) \in class THEN DropLast(str) ELSE str

RECURSIVE DropAll(_, _)
DropAll(str, class) ==
    IF str # <<>> /\ Last(str) \in class THEN DropAll(DropLast(str), class) ELSE str

UnitLetters == {"K", "M", "G", "T"}

\* digits with at most one point, ending in a digit
IsNumeral(str) ==
    /\ str # <<>>
    /\ \A i \in DOMAIN str : str[i] \in Digits \cup {"."}
    /\ Cardinality({i \in DOMAIN str : str[i] = "."}) <= 1
    /\ Last(str) \in Digits

\* <number><optional unit><optional B>
StatedForm(str) == IsNumeral(DropIf(DropIf(str, {"B"}), UnitLetters))

\* <number><optional whitespace><optional unit><optional B><optional newline>
NumeralOf(str) ==
    DropAll(DropIf(DropIf(DropIf(str, {"\n"}), {"B"}), UnitLetters), Whitespace)

AcceptedForm(str) == IsNumeral(NumeralOf(str))

\* the rank of the unit letter of the string: K=1, M=2, G=3, T=4, none 0
RankOf(str) ==
    LET rest == DropIf(DropIf(str, {"\n"}), {"B"})
        unit == IF rest = <<>> THEN "" ELSE ToUpper(Last(rest))
    IN  CASE unit = "K" -> 1 [] unit = "M" -> 2 [] unit = "G" -> 3
          [] unit = "T" -> 4 [] OTHER -> 0

RECURSIVE BigTimes1024(_, _)
BigTimes1024(a, rank) ==
    IF rank = 0 THEN BigNorm(a) ELSE BigTimes1024(BigMulSmall(a, 1024, 0), rank - 1)

\* bytes = floor(number * 1024^rank), number = digits / 10^fraction
IsByteCount(bytes, str) ==
    LET exact == BigTimes1024(BigFromNat(DigitsValue(NumeralOf(str))), RankOf(str))
        tenth == 10 ^ FractionDigits(NumeralOf(str))
    IN  /\ BigGeq(exact, BigNorm(BigMulSmall(bytes, tenth, 0)))
        /\ ~BigGeq(exact, BigNorm(BigMulSmall(BigAdd(bytes, <<1>>), tenth, 0)))

ParsedAsByteCount(str) ==
    IF IsByteCount(<<>>, str)
    THEN parsed.state = "ValueError"
    ELSE /\ parsed.state = "returned"
         /\ parsed.size_in_bytes # <<>>
         /\ IsByteCount(parsed.size_in_bytes, str)

\* C8, as stated: a string of the form <number><optional unit><optional B>
\* yields number * 1024^rank as an integer, or the non-positive-size error
\* when that is <= 0; every other string yields the format error; no value
\* <= 0 is ever returned.
C8_ParseSize_AsStated ==
    parsed.state \notin {"idle", "pending"} =>
        IF StatedForm(size_str)
        THEN ParsedAsByteCount(size_str)
        ELSE parsed.state = "ArgumentTypeError"

\* C8, amended: the accepted form also allows whitespace between the number
\* and the unit and one newline at the end; such a string yields
\* floor(number * 1024^rank), or the non-positive-size error when that is 0;
\* every other string yields the format error; no value <= 0 is returned.
C8_ParseSize ==
    parsed.state \notin {"idle", "pending"} =>
        IF AcceptedForm(size_str)
        THEN ParsedAsByteCount(size_str)
        ELSE parsed.state = "ArgumentTypeError"

\* "5 K", with a blank before the unit, parsed to 5120 bytes
C8_Witness ==
    /\ size_str = <<"5", " ", "K">>
    /\ parsed.state = "returned"
    /\ parsed.size_in_bytes = BigFromNat(5120)


\* the dimension asked of the transform does not exceed the probed one, and is
\* below it when there is at least one pixel to lose
NotEnlarged(requested, original) ==
    /\ requested <= original
    /\ original >= 1 => requested < original

\* C11: no file changes size between the size filter and probe, and every file
\* handed to the resize phase got from probe (line 89) a scale factor strictly
\* below 1.0 and (line 93) a width and
\* a height no larger than the probed ones, strictly smaller when those are at
\* least 1: the transform is never asked to enlarge an image.
C11_NeverUpscales ==
    \A t \in DOMAIN futures :
        /\ probed[t].file = probe_results[t].input_file
        /\ probed[t].current_size = disk[probed[t].file]
        /\ FloatBelowOne(probed[t].scale_factor)
        /\ NotEnlarged(probe_results[t].new_dimensions[1], probed[t].width)
        /\ NotEnlarged(probe_results[t].new_dimensions[2], probed[t].height)

\* a 2x2 image over the target went through the transform at 1x1
C11_Witness ==
    \E t \in DOMAIN futures :
        /\ futures[t] = "finished"
        /\ probed[t].width = 2 /\ probed[t].height = 2
        /\ probed[t].current_size > target_size
        /\ probe_results[t].new_dimensions = <<1, 1>>
        /\ transform_calls[probed[t].file] = 1

=============================================================================
